---- MODULE Spec2Model ----
(***************************************************************************)
(* Flow test harness of dynamorse-test (src/testUtil.js): nodeRedTest,     *)
(* postFlow, adminApiReq, deleteFlow, checkCompleted and the WebSocket     *)
(* handlers, as one event-driven state machine.  Every action is one       *)
(* callback of the single-threaded event loop, run to completion.          *)
(*                                                                         *)
(* Environment: the admin API answers every request with a status out of   *)
(* Statuses or with a transport error; a 200 answer carries well-formed    *)
(* JSON, for POST with or without an id field.  WebSocket clients send     *)
(* well-formed JSON.  The message handler onMsg is supplied by the test:   *)
(* per message it may increment params.count and may call its end          *)
(* callback.  WebSocket.Server.close terminates the connected clients.     *)
(*                                                                         *)
(* Spec is the run of the harness with the handling of a frame as one      *)
(* step; MsgSpec puts the frames of each connection on a FIFO between the  *)
(* client and the 'message' handler; UtilSpec is download and rimraf on    *)
(* the staging directory, without other writers; GrainSpec is checkGrain   *)
(* on one message object.                                                  *)
(***************************************************************************)
EXTENDS Integers, FiniteSets, Sequences, Bags, TLC

\* ---- bounds -------------------------------------------------------------
MaxConn == 2          \* client connections accepted in one run
MaxCount == 2         \* cap on params.count
MaxDeleteCalls == 2   \* cap on entries of deleteFlow caused by end callbacks
MaxWsErrors == 1      \* cap on 'error' events of the WebSocket server
MaxMsgs == 3          \* frames the clients of a run send, all together
MaxWidth == 2         \* names in one directory
MaxDepth == 2         \* directory levels below the staging directory
MaxEntries == 4       \* entries below the staging directory at the start
MaxPayload == 2       \* largest payloadCount and payloadSize of a message

Conns == 1..MaxConn
Ids == {"f1"}                 \* identifiers the admin API may assign
NoId == "<undefined>"         \* res.id when the 200 body has no id field
Statuses == {200, 204, 500}   \* statuses the admin API may answer with
TransportError == 0           \* pseudo status: the request emitted 'error'
NoStatus == -1                \* no answer yet
NotSet == -2                  \* params.count / lastCount before the POST callback

VARIABLES
  pc,              \* "posting" | "running" | "aborted" | "crashed"
  keepFlow,        \* params.keepFlow
  postStatus,      \* outcome of POST /flow
  flowId,          \* res.id of the POST answer
  count,           \* params.count
  lastCount,       \* postFlow: lastCount
  endReceived,     \* postFlow: endReceived
  doneClosedown,   \* postFlow: doneClosedown
  conn,            \* per client: "none" | "open" | "closed"
  timer,           \* per client: interval id "none" | "armed" | "cleared"
  pending,         \* bag of DELETE requests in flight
  deleteFlowCalls, \* entries of deleteFlow
  deleteSent,      \* DELETE requests written
  doneCalls,       \* invocations of nodeRedTest's done continuation
  closePending,    \* server.close callbacks still to come
  tEndCalls,       \* invocations of t.end
  wssClosed,       \* wss.close has been called
  serverClosed,    \* the http server has emitted 'close'
  wsErrors,        \* 'error' events of the WebSocket server
  fails,           \* labels of the failed tape assertions
  lastReq,         \* the last admin API request that was answered
  ticked           \* clients whose interval has fired at least once

\* the frames of the WebSocket connections, for the message path
VARIABLES
  wire,            \* per client: frames sent and not yet emitted as 'message'
  sentN,           \* per client: frames sent
  nHandled,        \* per client: invocations of onMsg
  lastHandled,     \* per client: number of the frame onMsg was last given
  closedBy         \* per client: the frame after which ws.close() was called

\* the filesystem below the staging directory, rimraf and download
VARIABLES
  fs,              \* per path: "absent" | "file" | "dir"
  rmPc,            \* per path: where the removal of the entry stands
  rmCall,          \* calls of rimraf on the staging directory
  rmOps,           \* filesystem operations of the current call, exists apart
  rmErr,           \* error code a filesystem operation of rimraf gave
  fsBefore,        \* the filesystem when the current call of rimraf began
  dlPc,            \* download: "idle" | "mkdir" | "fetch" | "write" | "resolved" | "rejected"
  dlFile,          \* download: name of the file
  dlMk,            \* download: outcome of mkdir
  dlErr,           \* download: the error thrown to the caller
  dlSteps          \* download: the steps begun

\* checkGrain
VARIABLES
  cgObj,           \* the message object
  cgGrain,         \* the grain checkGrain returns
  cgFails,         \* messages of the failed assertions
  cgDone           \* checkGrain has returned

harnessVars == << pc, keepFlow, postStatus, flowId, count, lastCount,
                  endReceived, doneClosedown, conn, timer, pending,
                  deleteFlowCalls, deleteSent, doneCalls, closePending,
                  tEndCalls, wssClosed, serverClosed, wsErrors, fails,
                  lastReq, ticked >>

msgVars == << wire, sentN, nHandled, lastHandled, closedBy >>

utilVars == << fs, rmPc, rmCall, rmOps, rmErr, fsBefore,
              dlPc, dlFile, dlMk, dlErr, dlSteps >>

grainVars == << cgObj, cgGrain, cgFails, cgDone >>

auxVars == << msgVars, utilVars, grainVars >>

vars == << pc, keepFlow, postStatus, flowId, count, lastCount, endReceived,
           doneClosedown, conn, timer, pending, deleteFlowCalls, deleteSent,
           doneCalls, closePending, tEndCalls, wssClosed, serverClosed,
           wsErrors, fails, lastReq, ticked,
           wire, sentN, nHandled, lastHandled, closedBy,
           fs, rmPc, rmCall, rmOps, rmErr, fsBefore,
           dlPc, dlFile, dlMk, dlErr, dlSteps,
           cgObj, cgGrain, cgFails, cgDone >>

\* ---- adminApiReq --------------------------------------------------------
\* mutant of IsErrorStatus: only the expected POST status counts as success
IsErrorStatusOnly200(s) == ~(200 = s)

\* line 48: the answer is an error unless the status is 200 or 204
IsErrorStatus(s) == ~((200 = s) \/ (204 = s))

\* line 47 and 52-53: assertions on the answer
ResponseFails(s, expected, ctJson) ==
  (IF s # expected THEN {"status"} ELSE {})
    \cup (IF 200 = s /\ ~ctJson THEN {"contentType"} ELSE {})

\* lines 43-62: which continuation an outcome invokes, and how often
Continuations(method, s) ==
  IF s = TransportError THEN [method |-> method, status |-> s, cb |-> 0, onError |-> 1]
  ELSE IF IsErrorStatus(s) THEN [method |-> method, status |-> s, cb |-> 0, onError |-> 1]
  ELSE [method |-> method, status |-> s, cb |-> 1, onError |-> 0]

\* template literal `${flowId}` of lines 84-85
IdStr(id) == IF id = NoId THEN "undefined" ELSE id

\* ---- nodeRedTest: done --------------------------------------------------
\* lines 137-145: wss.close terminates the clients, then server.close
Terminated(cn) == [c \in Conns |-> IF cn[c] = "open" THEN "closed" ELSE cn[c]]

Done(n, cn) ==
  /\ doneCalls' = doneCalls + n
  /\ closePending' = closePending + n
  /\ wssClosed' = (wssClosed \/ n > 0)
  /\ conn' = IF n > 0 THEN Terminated(cn) ELSE cn

\* ---- postFlow -----------------------------------------------------------
\* mutant of SkipDelete: params.keepFlow is ignored
SkipDeleteNever == FALSE

\* line 79
SkipDelete == keepFlow

\* line 85: the DELETE request deleteFlow writes
DeleteReq(kind, c, id) ==
  [kind |-> kind, conn |-> c, path |-> IdStr(id), body |-> IdStr(id)]

\* mutant of StallDetected: the comparison with lastCount is inverted
StallDetectedInverted == count # lastCount

\* mutant of InitialCount: params.count is not assigned
InitialCountUnset == NotSet

\* line 72: params.count = 0
InitialCount == 0

\* line 73: let lastCount = -1
InitialLastCount == -1

\* mutant of ClosedownAssert: the assertion of line 95 is not made
ClosedownAssertDropped == {}

\* line 95: t.ok(doneClosedown, 'closedown has been completed')
ClosedownAssert == IF doneClosedown THEN {} ELSE {"closedown"}

\* mutant of WsCloseCalled: the harness closes after every message
WsCloseCalledAlways(close) == TRUE

\* lines 121-122: ws.close() when the message has a close field
WsCloseCalled(close) == close

\* line 92
StallDetected == count = lastCount

HarnessInit ==
  /\ pc = "posting"
  /\ keepFlow \in BOOLEAN
  /\ postStatus = NoStatus
  /\ flowId = NoId
  /\ count = NotSet
  /\ lastCount = NotSet
  /\ endReceived = FALSE
  /\ doneClosedown = FALSE
  /\ conn = [c \in Conns |-> "none"]
  /\ timer = [c \in Conns |-> "none"]
  /\ pending = EmptyBag
  /\ deleteFlowCalls = 0
  /\ deleteSent = 0
  /\ doneCalls = 0
  /\ closePending = 0
  /\ tEndCalls = 0
  /\ wssClosed = FALSE
  /\ serverClosed = FALSE
  /\ wsErrors = 0
  /\ fails = {}
  /\ lastReq = [method |-> "none", status |-> NoStatus, cb |-> 0, onError |-> 0]
  /\ ticked = {}

\* no frame has been sent
NoMsg == [n |-> 0, inc |-> 0, end |-> FALSE, close |-> FALSE]

MsgIdle ==
  /\ wire = [c \in Conns |-> << >>]
  /\ sentN = [c \in Conns |-> 0]
  /\ nHandled = [c \in Conns |-> 0]
  /\ lastHandled = [c \in Conns |-> 0]
  /\ closedBy = [c \in Conns |-> NoMsg]

\* ---- paths ---------------------------------------------------------------
\* a path is the sequence of names below path.join(__dirname, 'tmp')
Paths == UNION {[1..n -> 1..MaxWidth] : n \in 0..MaxDepth}
Root == << >>

\* line 242: path.join(dir, name)
Join(dir, name) == Append(dir, name)

Parent(p) == SubSeq(p, 1, Len(p) - 1)
Children(p) == {q \in Paths : Len(q) = Len(p) + 1 /\ Parent(q) = p}

\* neither rimraf nor download has been called, nothing is on disk
UtilIdle ==
  /\ fs = [p \in Paths |-> "absent"]
  /\ rmPc = [p \in Paths |-> "none"]
  /\ rmCall = 0
  /\ rmOps = 0
  /\ rmErr = "none"
  /\ fsBefore = [p \in Paths |-> "absent"]
  /\ dlPc = "idle"
  /\ dlFile = 1
  /\ dlMk = "none"
  /\ dlErr = "none"
  /\ dlSteps = {}

\* value of a field that is missing or that the Grain constructor rejects
Undefined == "undefined"

\* checkGrain has not been called
GrainIdle ==
  /\ cgObj = [hasCount |-> FALSE, payloadCount |-> 0, hasSize |-> FALSE,
              payloadSize |-> 0, ptpSyncTimestamp |-> Undefined,
              ptpOriginTimestamp |-> Undefined, flow_id |-> Undefined,
              source_id |-> Undefined, duration |-> Undefined]
  /\ cgGrain = [ptpSync |-> Undefined, ptpOrigin |-> Undefined,
                flow_id |-> Undefined, source_id |-> Undefined,
                duration |-> Undefined]
  /\ cgFails = {}
  /\ cgDone = FALSE

Init == HarnessInit /\ MsgIdle /\ UtilIdle /\ GrainIdle

RunVarsUnchanged == UNCHANGED << count, lastCount, endReceived, doneClosedown >>
DeleteUnchanged == UNCHANGED << pending, deleteFlowCalls, deleteSent >>

\* lines 43-58 and 69-76: the answer to POST /flow
PostResponse(s, id, ctJson) ==
  /\ pc = "posting"
  /\ postStatus' = s
  /\ lastReq' = Continuations("POST", s)
  /\ fails' = fails \cup ResponseFails(s, 200, ctJson)
                    \cup (IF 200 = s /\ id = NoId THEN {"flowId"} ELSE {})
  /\ IF lastReq'.onError = 1
       THEN \* onError is done
            /\ pc' = "aborted"
            /\ Done(1, conn)
            /\ UNCHANGED flowId
            /\ RunVarsUnchanged
       ELSE IF 204 = s
       THEN \* cb(null): res.id throws, nothing catches it
            /\ pc' = "crashed"
            /\ Done(0, conn)
            /\ UNCHANGED flowId
            /\ RunVarsUnchanged
       ELSE /\ pc' = "running"
            /\ Done(0, conn)
            /\ flowId' = id
            /\ count' = InitialCount
            /\ lastCount' = InitialLastCount
            /\ endReceived' = FALSE
            /\ doneClosedown' = FALSE
  /\ DeleteUnchanged
  /\ UNCHANGED << keepFlow, timer, tEndCalls, serverClosed, wsErrors, ticked >>

\* lines 59-62: POST /flow fails in transport
PostError ==
  /\ pc = "posting"
  /\ postStatus' = TransportError
  /\ lastReq' = Continuations("POST", TransportError)
  /\ fails' = fails \cup {"transport"}
  /\ pc' = "aborted"
  /\ Done(1, conn)
  /\ RunVarsUnchanged
  /\ DeleteUnchanged
  /\ UNCHANGED << keepFlow, flowId, timer, tEndCalls, serverClosed, wsErrors, ticked >>

\* lines 102-108: a client connects
Connect(c) ==
  /\ pc = "running"
  /\ ~wssClosed
  /\ conn[c] = "none"
  /\ conn' = [conn EXCEPT ![c] = "open"]
  /\ timer' = [timer EXCEPT ![c] = "armed"]
  /\ RunVarsUnchanged
  /\ DeleteUnchanged
  /\ UNCHANGED << pc, keepFlow, postStatus, flowId, doneCalls, closePending,
                  tEndCalls, wssClosed, serverClosed, wsErrors, fails, lastReq,
                  ticked >>

\* lines 78-87: deleteFlow entered from path kind on the closure of client c;
\* sync is the number of times its continuation runs before it returns
DeleteFlow(kind, c, sync) ==
  /\ deleteFlowCalls' = deleteFlowCalls + 1
  /\ IF SkipDelete
       THEN /\ sync = 1
            /\ UNCHANGED << pending, deleteSent >>
       ELSE /\ sync = 0
            /\ pending' = pending (+) SetToBag({DeleteReq(kind, c, flowId)})
            /\ deleteSent' = deleteSent + 1

\* lines 110-123: a message arrives on client c; onMsg adds inc to
\* params.count and calls its end callback when end; the message has a
\* close field when close
Message(c, inc, end, close) ==
  /\ pc = "running"
  /\ conn[c] = "open"
  /\ count + inc <= MaxCount
  /\ end => deleteFlowCalls < MaxDeleteCalls
  /\ count' = count + inc
  /\ IF end
       THEN \E sync \in {0, 1} :
              /\ endReceived' = TRUE
              /\ DeleteFlow("end", c, sync)
              /\ doneClosedown' = (doneClosedown \/ sync = 1)
              /\ timer' = IF sync = 1 THEN [timer EXCEPT ![c] = "cleared"] ELSE timer
              /\ Done(sync, IF WsCloseCalled(close) THEN [conn EXCEPT ![c] = "closed"] ELSE conn)
       ELSE /\ UNCHANGED << endReceived, doneClosedown, timer >>
            /\ DeleteUnchanged
            /\ Done(0, IF WsCloseCalled(close) THEN [conn EXCEPT ![c] = "closed"] ELSE conn)
  /\ UNCHANGED << pc, keepFlow, postStatus, flowId, lastCount, tEndCalls,
                  serverClosed, wsErrors, fails, lastReq, ticked >>

\* lines 89-100 and 104-107: the interval of client c fires checkCompleted
Tick(c) ==
  /\ pc = "running"
  /\ timer[c] = "armed"
  /\ IF doneClosedown
       THEN \* onComplete
            /\ timer' = [timer EXCEPT ![c] = "cleared"]
            /\ Done(1, conn)
            /\ DeleteUnchanged
            /\ UNCHANGED << doneClosedown, fails >>
       ELSE IF StallDetected
       THEN \E sync \in {0, 1} :
              /\ fails' = fails \cup (IF endReceived THEN {} ELSE {"endReceived"})
                                \cup ClosedownAssert
              /\ DeleteFlow("stall", c, sync)
              /\ timer' = IF sync = 1 THEN [timer EXCEPT ![c] = "cleared"] ELSE timer
              /\ Done(sync, conn)
              /\ doneClosedown' = TRUE
       ELSE /\ Done(0, conn)
            /\ DeleteUnchanged
            /\ UNCHANGED << doneClosedown, fails, timer >>
  /\ lastCount' = count
  /\ ticked' = ticked \cup {c}
  /\ UNCHANGED << pc, keepFlow, postStatus, flowId, count, endReceived,
                  tEndCalls, serverClosed, wsErrors, lastReq >>

\* the continuation deleteFlow was given, run n times for request r:
\* lines 115-119 on the end path, lines 96 and 104-107 on the stall path
DeleteContinuation(r, n) ==
  /\ doneClosedown' = (doneClosedown \/ (r.kind = "end" /\ n > 0))
  /\ timer' = IF n > 0 THEN [timer EXCEPT ![r.conn] = "cleared"] ELSE timer
  /\ Done(n, conn)

\* lines 43-58 with line 85: the answer to a DELETE request
DeleteResponse(r, s, ctJson) ==
  /\ r \in BagToSet(pending)
  /\ pending' = pending (-) SetToBag({r})
  /\ lastReq' = Continuations("DELETE", s)
  /\ fails' = fails \cup ResponseFails(s, 204, ctJson)
  /\ DeleteContinuation(r, lastReq'.cb + lastReq'.onError)
  /\ UNCHANGED << pc, keepFlow, postStatus, flowId, count, lastCount,
                  endReceived, deleteFlowCalls, deleteSent, tEndCalls,
                  serverClosed, wsErrors, ticked >>

\* lines 59-62 with line 85: a DELETE request fails in transport
DeleteError(r) ==
  /\ r \in BagToSet(pending)
  /\ pending' = pending (-) SetToBag({r})
  /\ lastReq' = Continuations("DELETE", TransportError)
  /\ fails' = fails \cup {"transport"}
  /\ DeleteContinuation(r, lastReq'.cb + lastReq'.onError)
  /\ UNCHANGED << pc, keepFlow, postStatus, flowId, count, lastCount,
                  endReceived, deleteFlowCalls, deleteSent, tEndCalls,
                  serverClosed, wsErrors, ticked >>

\* lines 140-143: a server.close callback; it carries an error when the
\* server had already been closed by an earlier done
ServerClosed ==
  /\ closePending > 0
  /\ closePending' = closePending - 1
  /\ serverClosed' = TRUE
  /\ tEndCalls' = tEndCalls + 1
  /\ fails' = fails \cup (IF serverClosed THEN {"closeErr"} ELSE {})
  /\ RunVarsUnchanged
  /\ DeleteUnchanged
  /\ UNCHANGED << pc, keepFlow, postStatus, flowId, conn, timer, doneCalls,
                  wssClosed, wsErrors, lastReq, ticked >>

\* line 135: the WebSocket server emits 'error'
WsError ==
  /\ pc # "crashed"
  /\ ~wssClosed
  /\ wsErrors < MaxWsErrors
  /\ wsErrors' = wsErrors + 1
  /\ fails' = fails \cup {"wsError"}
  /\ RunVarsUnchanged
  /\ DeleteUnchanged
  /\ UNCHANGED << pc, keepFlow, postStatus, flowId, conn, timer, doneCalls,
                  closePending, tEndCalls, wssClosed, serverClosed, lastReq,
                  ticked >>

Next ==
  \/ /\ \E s \in Statuses, id \in Ids \cup {NoId}, ctJson \in BOOLEAN :
          PostResponse(s, id, ctJson)
     /\ UNCHANGED auxVars
  \/ PostError /\ UNCHANGED auxVars
  \/ /\ \E c \in Conns : Connect(c)
     /\ UNCHANGED auxVars
  \/ /\ \E c \in Conns, inc \in {0, 1}, end \in BOOLEAN, close \in BOOLEAN :
          Message(c, inc, end, close)
     /\ UNCHANGED auxVars
  \/ /\ \E c \in Conns : Tick(c)
     /\ UNCHANGED auxVars
  \/ /\ \E r \in BagToSet(pending), s \in Statuses, ctJson \in BOOLEAN :
          DeleteResponse(r, s, ctJson)
     /\ UNCHANGED auxVars
  \/ /\ \E r \in BagToSet(pending) : DeleteError(r)
     /\ UNCHANGED auxVars
  \/ ServerClosed /\ UNCHANGED auxVars
  \/ WsError /\ UNCHANGED auxVars

Spec == Init /\ [][Next]_vars

\* Scheduling of the event loop: an armed interval fires, a request in flight
\* is answered, a closing server closes.  Clients connect and send as they
\* please.
Fairness ==
  /\ \A c \in Conns : WF_vars(Tick(c) /\ UNCHANGED auxVars)
  /\ WF_vars((\E s \in Statuses, id \in Ids \cup {NoId}, ctJson \in BOOLEAN :
                PostResponse(s, id, ctJson)) /\ UNCHANGED auxVars)
  /\ WF_vars((\E r \in BagToSet(pending), s \in Statuses, ctJson \in BOOLEAN :
                DeleteResponse(r, s, ctJson)) /\ UNCHANGED auxVars)
  /\ WF_vars(ServerClosed /\ UNCHANGED auxVars)

FairSpec == Spec /\ Fairness

\* ---- the message path ----------------------------------------------------
\* frames sent by the clients 1..n
RECURSIVE TotalSent(_)
TotalSent(n) == IF n = 0 THEN 0 ELSE sentN[n] + TotalSent(n - 1)

\* line 110: the socket of client c receives a frame; 'message' events are
\* emitted one per frame, oldest first
Send(c, inc, end, close) ==
  /\ pc = "running"
  /\ conn[c] = "open"
  /\ TotalSent(MaxConn) < MaxMsgs
  /\ sentN' = [sentN EXCEPT ![c] = @ + 1]
  /\ wire' = [wire EXCEPT ![c] =
                Append(@, [n |-> sentN[c] + 1, inc |-> inc, end |-> end,
                           close |-> close])]
  /\ UNCHANGED << nHandled, lastHandled, closedBy >>
  /\ UNCHANGED << harnessVars, utilVars, grainVars >>

\* lines 110-123: the 'message' event for the oldest frame of client c
Deliver(c) ==
  /\ wire[c] # << >>
  /\ LET m == Head(wire[c]) IN
       /\ Message(c, m.inc, m.end, m.close)
       /\ nHandled' = [nHandled EXCEPT ![c] = @ + 1]
       /\ lastHandled' = [lastHandled EXCEPT ![c] = m.n]
       /\ closedBy' = IF WsCloseCalled(m.close)
                        THEN [closedBy EXCEPT ![c] = m]
                        ELSE closedBy
  /\ wire' = [wire EXCEPT ![c] = Tail(@)]
  /\ UNCHANGED << sentN, utilVars, grainVars >>

MsgNext ==
  \/ /\ \E s \in Statuses, id \in Ids \cup {NoId}, ctJson \in BOOLEAN :
          PostResponse(s, id, ctJson)
     /\ UNCHANGED auxVars
  \/ /\ \E c \in Conns : Connect(c)
     /\ UNCHANGED auxVars
  \/ \E c \in Conns, inc \in {0, 1}, end \in BOOLEAN, close \in BOOLEAN :
       Send(c, inc, end, close)
  \/ \E c \in Conns : Deliver(c)

\* the message path of a run: creation of the flow, connections, frames;
\* timers and DELETE answers do not touch the frames
MsgSpec == Init /\ [][MsgNext]_vars

TypeOK ==
  /\ pc \in {"posting", "running", "aborted", "crashed"}
  /\ count \in {NotSet} \cup (0..MaxCount)
  /\ lastCount \in {NotSet, -1} \cup (0..MaxCount)
  /\ conn \in [Conns -> {"none", "open", "closed"}]
  /\ ticked \subseteq Conns
  /\ timer \in [Conns -> {"none", "armed", "cleared"}]
  /\ IsABag(pending)

\* ---- rimraf ----------------------------------------------------------------
\* the trees the staging directory may hold: the entries E, the files F
Trees ==
  UNION {
    {[p \in Paths |-> IF p \notin E THEN "absent"
                      ELSE IF p \in F THEN "file" ELSE "dir"] :
       F \in {F \in SUBSET (E \ {Root}) :
                \A p \in E \ {Root} : Parent(p) \notin F}} :
    E \in {E \in SUBSET Paths :
             /\ Cardinality(E \ {Root}) <= MaxEntries
             /\ \A p \in E \ {Root} : Parent(p) \in E}}

\* mutant of DirExists: rimraf does not test for the directory
DirExistsAlways(p) == TRUE

\* line 239: await exists(dir)
DirExists(p) == fs[p] # "absent"

\* mutant of ChildrenSettled: rmdir does not wait for the entries
ChildrenSettledNoWait(p) == TRUE

\* line 241: await Promise.all(...), every entry of the list is removed
ChildrenSettled(p) == \A q \in Children(p) : rmPc[q] \in {"none", "done"}

\* line 241: Promise.all rejects as soon as one entry has failed
ChildFailed(p) == \E q \in Children(p) : rmPc[q] = "failed"

DownloadQuiet == dlPc \in {"idle", "resolved", "rejected"}

RmFrame == UNCHANGED << harnessVars, msgVars, grainVars,
                        dlPc, dlFile, dlMk, dlErr, dlSteps >>

\* lines 250-251 and 238: delTmp, rimraf called on the staging directory
RmStart ==
  /\ DownloadQuiet
  /\ rmCall < 2
  /\ rmCall = 0 \/ rmPc[Root] = "done"
  /\ rmCall' = rmCall + 1
  /\ rmPc' = [p \in Paths |-> IF p = Root THEN "exists" ELSE "none"]
  /\ rmOps' = 0
  /\ rmErr' = "none"
  /\ fsBefore' = fs
  /\ UNCHANGED fs
  /\ RmFrame

\* line 239: exists answers for rimraf(p)
RmExists(p) ==
  /\ rmPc[p] = "exists"
  /\ rmPc' = [rmPc EXCEPT ![p] = IF DirExists(p) THEN "readdir" ELSE "done"]
  /\ UNCHANGED << fs, rmCall, rmOps, rmErr, fsBefore >>
  /\ RmFrame

\* lines 240-243: readdir answers and every name of the list starts lstat
RmReaddir(p) ==
  /\ rmPc[p] = "readdir"
  /\ rmOps' = rmOps + 1
  /\ IF fs[p] = "dir"
       THEN /\ rmPc' = [q \in Paths |->
                         IF q = p THEN "wait"
                         ELSE IF q \in Children(p) /\ fs[q] # "absent" THEN "lstat"
                         ELSE rmPc[q]]
            /\ UNCHANGED rmErr
       ELSE /\ rmPc' = [rmPc EXCEPT ![p] = "failed"]
            /\ rmErr' = IF fs[p] = "absent" THEN "ENOENT" ELSE "ENOTDIR"
  /\ UNCHANGED << fs, rmCall, fsBefore >>
  /\ RmFrame

\* lines 243-244: lstat answers; a directory is given to rimraf, anything
\* else to unlink
RmLstat(p) ==
  /\ rmPc[p] = "lstat"
  /\ rmOps' = rmOps + 1
  /\ IF fs[p] = "absent"
       THEN /\ rmPc' = [rmPc EXCEPT ![p] = "failed"]
            /\ rmErr' = "ENOENT"
       ELSE /\ rmPc' = [rmPc EXCEPT ![p] = IF fs[p] = "dir" THEN "exists" ELSE "unlink"]
            /\ UNCHANGED rmErr
  /\ UNCHANGED << fs, rmCall, fsBefore >>
  /\ RmFrame

\* line 244: unlink answers
RmUnlink(p) ==
  /\ rmPc[p] = "unlink"
  /\ rmOps' = rmOps + 1
  /\ IF fs[p] = "file"
       THEN /\ fs' = [fs EXCEPT ![p] = "absent"]
            /\ rmPc' = [rmPc EXCEPT ![p] = "done"]
            /\ UNCHANGED rmErr
       ELSE /\ rmPc' = [rmPc EXCEPT ![p] = "failed"]
            /\ rmErr' = IF fs[p] = "absent" THEN "ENOENT" ELSE "EISDIR"
            /\ UNCHANGED fs
  /\ UNCHANGED << rmCall, fsBefore >>
  /\ RmFrame

\* lines 241-246: Promise.all settles; when it resolves rmdir(dir) runs
RmRmdir(p) ==
  /\ rmPc[p] = "wait"
  /\ ChildFailed(p) \/ ChildrenSettled(p)
  /\ IF ChildFailed(p)
       THEN /\ rmPc' = [rmPc EXCEPT ![p] = "failed"]
            /\ UNCHANGED << fs, rmOps, rmErr >>
       ELSE /\ rmOps' = rmOps + 1
            /\ IF fs[p] = "dir" /\ \A q \in Children(p) : fs[q] = "absent"
                 THEN /\ fs' = [fs EXCEPT ![p] = "absent"]
                      /\ rmPc' = [rmPc EXCEPT ![p] = "done"]
                      /\ UNCHANGED rmErr
                 ELSE /\ rmPc' = [rmPc EXCEPT ![p] = "failed"]
                      /\ rmErr' = IF fs[p] = "dir" THEN "ENOTEMPTY" ELSE "ENOENT"
                      /\ UNCHANGED fs
  /\ UNCHANGED << rmCall, fsBefore >>
  /\ RmFrame

\* ---- download ----------------------------------------------------------------
\* mutant of Swallowed: every error of mkdir is swallowed
SwallowedAny(e) == TRUE

\* line 228: if (e.code !== 'EEXIST') throw e
Swallowed(e) == e = "EEXIST"

DlFrame == UNCHANGED << harnessVars, msgVars, grainVars,
                        rmPc, rmCall, rmOps, rmErr, fsBefore >>

\* lines 224-226: download(uri, file) is called and calls mkdir
DlStart(f) ==
  /\ dlPc = "idle"
  /\ rmCall = 0
  /\ dlPc' = "mkdir"
  /\ dlFile' = f
  /\ dlSteps' = {"mkdir"}
  /\ UNCHANGED << fs, dlMk, dlErr >>
  /\ DlFrame

\* lines 225-230: mkdir answers with outcome mk; getUri is called unless
\* the error is thrown
DlMkdir(mk) ==
  /\ dlPc = "mkdir"
  /\ IF fs[Root] # "absent" THEN mk = "EEXIST" ELSE mk \in {"ok", "EACCES"}
  /\ dlMk' = mk
  /\ fs' = IF mk = "ok" THEN [fs EXCEPT ![Root] = "dir"] ELSE fs
  /\ IF mk = "ok" \/ Swallowed(mk)
       THEN /\ dlPc' = "fetch"
            /\ dlSteps' = dlSteps \cup {"getUri"}
            /\ UNCHANGED dlErr
       ELSE /\ dlPc' = "rejected"
            /\ dlErr' = mk
            /\ UNCHANGED dlSteps
  /\ UNCHANGED dlFile
  /\ DlFrame

\* lines 230-232: getUri answers; the source is piped into the write stream
DlFetch(ok) ==
  /\ dlPc = "fetch"
  /\ IF ok
       THEN /\ dlPc' = "write"
            /\ dlSteps' = dlSteps \cup {"write"}
            /\ UNCHANGED dlErr
       ELSE /\ dlPc' = "rejected"
            /\ dlErr' = "EFETCH"
            /\ UNCHANGED dlSteps
  /\ UNCHANGED << fs, dlFile, dlMk >>
  /\ DlFrame

\* lines 231-235: the write stream emits 'finish' or 'error'; created tells
\* whether the file was opened before the error
DlWrite(ok, created) ==
  /\ dlPc = "write"
  /\ LET file == Join(Root, dlFile)
         canOpen == fs[Root] = "dir" /\ fs[file] # "dir" IN
       IF ok /\ canOpen
         THEN /\ created
              /\ fs' = [fs EXCEPT ![file] = "file"]
              /\ dlPc' = "resolved"
              /\ UNCHANGED dlErr
         ELSE /\ ~ok \/ ~created
              /\ fs' = IF created /\ canOpen THEN [fs EXCEPT ![file] = "file"] ELSE fs
              /\ dlPc' = "rejected"
              /\ dlErr' = IF fs[Root] # "dir" THEN "ENOENT"
                           ELSE IF fs[file] = "dir" THEN "EISDIR" ELSE "EIO"
  /\ UNCHANGED << dlFile, dlMk, dlSteps >>
  /\ DlFrame

UtilInit ==
  /\ HarnessInit
  /\ keepFlow = FALSE
  /\ MsgIdle
  /\ GrainIdle
  /\ fs \in Trees
  /\ rmPc = [p \in Paths |-> "none"]
  /\ rmCall = 0
  /\ rmOps = 0
  /\ rmErr = "none"
  /\ fsBefore = fs
  /\ dlPc = "idle"
  /\ dlFile = 1
  /\ dlMk = "none"
  /\ dlErr = "none"
  /\ dlSteps = {}

UtilNext ==
  \/ RmStart
  \/ \E p \in Paths : RmExists(p)
  \/ \E p \in Paths : RmReaddir(p)
  \/ \E p \in Paths : RmLstat(p)
  \/ \E p \in Paths : RmUnlink(p)
  \/ \E p \in Paths : RmRmdir(p)
  \/ \E f \in 1..MaxWidth : DlStart(f)
  \/ \E mk \in {"ok", "EEXIST", "EACCES"} : DlMkdir(mk)
  \/ \E ok \in BOOLEAN : DlFetch(ok)
  \/ \E ok \in BOOLEAN, created \in BOOLEAN : DlWrite(ok, created)

\* download and cleanup of the staging directory, one after the other
UtilSpec == UtilInit /\ [][UtilNext]_vars

\* ---- checkGrain ----------------------------------------------------------
\* a field of the message: missing, or present with a value the Grain
\* constructor rejects ("bad") or keeps ("ok")
FieldValues == {Undefined, "bad", "ok"}

GrainObjs ==
  {o \in [hasCount : BOOLEAN, payloadCount : 0..MaxPayload,
          hasSize : BOOLEAN, payloadSize : (-1)..MaxPayload,
          ptpSyncTimestamp : FieldValues, ptpOriginTimestamp : FieldValues,
          flow_id : FieldValues, source_id : FieldValues,
          duration : FieldValues] :
     /\ ~o.hasCount => o.payloadCount = 0
     /\ ~o.hasSize => o.payloadSize = 0}

\* Grain.js: the constructor keeps a field it accepts and leaves any other
\* undefined
Accepted(v) == IF v = "ok" THEN v ELSE Undefined

\* lines 211-213: new Grain(null, obj.ptpSyncTimestamp, ...)
Grain(obj) ==
  [ptpSync |-> Accepted(obj.ptpSyncTimestamp),
   ptpOrigin |-> Accepted(obj.ptpOriginTimestamp),
   flow_id |-> Accepted(obj.flow_id),
   source_id |-> Accepted(obj.source_id),
   duration |-> Accepted(obj.duration)]

\* t.ok on a field: undefined is the falsy value
Truthy(v) == v # Undefined

\* mutant of OwnOrZero: a missing property counts as one
OwnOrOne(has, v) == IF has THEN v ELSE 1

\* lines 214-215: obj.hasOwnProperty(name) ? obj[name] : 0
OwnOrZero(has, v) == IF has THEN v ELSE 0

\* lines 214-220: the assertions of checkGrain that fail
GrainFails(obj, g) ==
  (IF OwnOrZero(obj.hasCount, obj.payloadCount) = 1 THEN {} ELSE {"has single payload"})
  \cup (IF OwnOrZero(obj.hasSize, obj.payloadSize) > 0 THEN {} ELSE {"has payload contents"})
  \cup (IF Truthy(g.ptpSync) THEN {} ELSE {"has valid PTP sync timestamp"})
  \cup (IF Truthy(g.ptpOrigin) THEN {} ELSE {"has valid PTP origin timestamp"})
  \cup (IF Truthy(g.flow_id) THEN {} ELSE {"has valid flow id"})
  \cup (IF Truthy(g.source_id) THEN {} ELSE {"has valid source id"})
  \cup (IF Truthy(g.duration) THEN {} ELSE {"has valid duration"})

\* lines 210-222: checkGrain(t, obj)
CheckGrain ==
  /\ ~cgDone
  /\ cgGrain' = Grain(cgObj)
  /\ cgFails' = GrainFails(cgObj, cgGrain')
  /\ cgDone' = TRUE
  /\ UNCHANGED << cgObj, harnessVars, msgVars, utilVars >>

GrainInit ==
  /\ HarnessInit
  /\ keepFlow = FALSE
  /\ MsgIdle
  /\ UtilIdle
  /\ cgObj \in GrainObjs
  /\ cgGrain = [ptpSync |-> Undefined, ptpOrigin |-> Undefined,
                flow_id |-> Undefined, source_id |-> Undefined,
                duration |-> Undefined]
  /\ cgFails = {}
  /\ cgDone = FALSE

GrainNext == CheckGrain

\* checkGrain applied to one message object
GrainSpec == GrainInit /\ [][GrainNext]_vars

\* ---- claims ------------------------------------------------------------

\* C1: in every run done is invoked exactly once, hence never a second time,
\* whatever the interleaving of messages, ticks and DELETE answers.
C1_DoneAtMostOnce == doneCalls <= 1

\* C2: deleteFlow is entered at most once per run and at most one DELETE
\* request is sent, whichever of the end path and the stall path came first.
C2_TeardownAtMostOnce == deleteFlowCalls <= 1 /\ deleteSent <= 1

\* C3: once the flow has been created, done and then t.end are eventually
\* invoked, under fair timers and fair HTTP answers, also when no client ever
\* connects or sends.
C3_VerdictEventually == (pc = "running") ~> (doneCalls > 0 /\ tEndCalls > 0)

\* C4: when t.end has been called, the interval of every accepted client has
\* been cleared and both servers have been closed.
C4_CleanAtEnd ==
  tEndCalls > 0 =>
    /\ \A c \in Conns : timer[c] # "armed"
    /\ wssClosed
    /\ serverClosed

\* C5: a POST answer with a status other than 200 (204 included) aborts
\* through done: the success callback does not run, no interval is started
\* and no DELETE is sent.
C5_PostAbort ==
  (postStatus # NoStatus /\ postStatus # 200) =>
    /\ pc = "aborted"
    /\ doneCalls >= 1
    /\ \A c \in Conns : timer[c] = "none"
    /\ deleteSent = 0

\* C6: a tick with closedown not done and params.count equal to the count of
\* the previous tick enters deleteFlow for the stall path and finalizes
\* (closedown is marked done; the continuation that calls done has run when
\* the flow is kept and otherwise waits for the answer to the DELETE it
\* sent); a tick with closedown not done and a changed count only records
\* the new count.
C6_StallTick ==
  [][\A c \in Conns :
       (Tick(c) /\ ~doneClosedown) =>
         IF count = lastCount
           THEN /\ deleteFlowCalls' = deleteFlowCalls + 1
                /\ doneClosedown'
                /\ lastCount' = count
                /\ keepFlow => (doneCalls' = doneCalls + 1 /\ pending' = pending)
                /\ ~keepFlow =>
                     /\ doneCalls' = doneCalls
                     /\ deleteSent' = deleteSent + 1
                     /\ \E r \in BagToSet(pending') :
                          /\ r.kind = "stall"
                          /\ r.conn = c
                          /\ CopiesIn(r, pending') = CopiesIn(r, pending) + 1
           ELSE /\ lastCount' = count
                /\ UNCHANGED << pc, keepFlow, postStatus, flowId, count,
                                endReceived, doneClosedown, conn, timer,
                                pending, deleteFlowCalls, deleteSent,
                                doneCalls, closePending, tEndCalls, wssClosed,
                                serverClosed, wsErrors, fails, lastReq >>]_vars

\* the stall path has acted after a tick that recorded a changed count
C6_Witness == "closedown" \in fails /\ doneClosedown /\ lastCount >= 1

\* C7: with params.keepFlow no DELETE is ever sent and every entry of
\* deleteFlow has run its continuation, which calls done; without keepFlow
\* every entry of deleteFlow sends one DELETE.
C7_KeepFlow ==
  /\ keepFlow => (deleteSent = 0 /\ pending = EmptyBag /\ doneCalls >= deleteFlowCalls)
  /\ ~keepFlow => deleteSent = deleteFlowCalls

\* a kept flow has been torn down by the stall path
C7_Witness == keepFlow /\ deleteFlowCalls >= 1 /\ "closedown" \in fails /\ doneCalls >= 1

\* C8: every DELETE in flight was sent after POST answered 200 with a flow
\* identifier, and its path and body carry that identifier.
C8_DeleteAddressesCreatedFlow ==
  \A r \in BagToSet(pending) :
    /\ postStatus = 200
    /\ flowId \in Ids
    /\ r.path = flowId
    /\ r.body = flowId

C10_WsErrorTerminal == wsErrors > 0 => doneCalls > 0

\* C11: a run accepts one WebSocket connection only: at any time at most one
\* stall-check interval is armed.
C11_OneInterval == Cardinality({c \in Conns : timer[c] = "armed"}) <= 1

\* C17: when the flow is not kept, done is never invoked while a DELETE
\* request of the run is still in flight.
C17_DoneAfterDelete ==
  [][(~keepFlow /\ doneCalls' > doneCalls /\ pc = "running") =>
       pending' = EmptyBag]_vars

\* C18: every teardown by the stall path of checkCompleted evaluates the
\* closedown assertion with doneClosedown false and so records it as failed;
\* a run that has invoked done after the flow was created without a failed
\* closedown assertion has completed the deletion of the end callback.
C18_StallFailsClosedown ==
  [][/\ \A c \in Conns :
          (Tick(c) /\ deleteFlowCalls' > deleteFlowCalls) =>
            (~doneClosedown /\ "closedown" \in fails')
     /\ (pc' = "running" /\ doneCalls' > 0 /\ "closedown" \notin fails') =>
          (endReceived' /\ doneClosedown')]_vars

\* a run finished by the stall path, and its failed assertion
C18_Witness ==
  /\ ~endReceived
  /\ doneClosedown
  /\ doneCalls = 1
  /\ deleteFlowCalls = 1
  /\ "closedown" \in fails

\* C19: the stall path never fires on the first tick of the interval of an
\* accepted connection.
C19_NoStallOnFirstTick ==
  [][\A c \in Conns :
       (Tick(c) /\ c \notin ticked) => deleteFlowCalls' = deleteFlowCalls]_vars

\* C20: the driver writes params.count once, to 0 when the flow has been
\* created; afterwards the count changes only in a message step, by what
\* onMsg adds; ticks and DELETE answers leave it alone; and with a count that
\* stays 0 the second tick of the run takes the stall path.
C20_CountFrame ==
  [][/\ count' # count =>
          \/ pc = "posting" /\ pc' = "running" /\ count' = 0
          \/ /\ pc = "running"
             /\ \E c \in Conns : conn[c] = "open"
             /\ count' = count + 1
             /\ UNCHANGED << lastCount, pc, ticked, lastReq >>
     /\ (pc = "posting" /\ pc' = "running") => count' = 0
     /\ ((\E c \in Conns : Tick(c)) \/ lastReq' # lastReq
           \/ (deleteSent' = deleteSent /\ pending' # pending)
           \/ tEndCalls' # tEndCalls \/ wsErrors' # wsErrors) =>
          (pc = "running" => count' = count)
     /\ \A c \in Conns :
          (Tick(c) /\ ticked # {} /\ count = 0 /\ ~doneClosedown) =>
            deleteFlowCalls' = deleteFlowCalls + 1]_vars

\* messages have arrived, the count is still 0 and the second tick has
\* taken the stall path
C20_Witness ==
  /\ count = 0
  /\ lastCount = 0
  /\ endReceived
  /\ "closedown" \in fails
  /\ Cardinality(ticked) = 1

C13_RimrafIdempotent ==
  /\ rmErr = "none"
  /\ \A p \in Paths : rmPc[p] # "failed"
  /\ (rmCall > 0 /\ fsBefore[Root] = "absent") =>
       (rmOps = 0 /\ fs = fsBefore /\ rmPc[Root] \in {"exists", "done"})
  /\ (rmCall = 2 /\ rmPc[Root] = "done") => (rmOps = 0 /\ fs = fsBefore)

\* a download filled the staging directory, a first rimraf removed it and a
\* second rimraf has completed
C13_Witness ==
  /\ dlPc = "resolved"
  /\ rmCall = 2
  /\ rmPc[Root] = "done"
  /\ fs[Root] = "absent"

\* C14: rimraf removes a directory only when every entry in it is gone, its
\* operations never fail, and when rimraf has completed the directory and
\* all its descendants are absent.
C14_RimrafRemovesTree ==
  [][/\ \A p \in Paths :
          (fs[p] = "dir" /\ fs'[p] = "absent") =>
            /\ \A q \in Children(p) : fs[q] = "absent" /\ rmPc[q] \in {"none", "done"}
            /\ rmPc'[p] = "done"
     /\ \A p \in Paths :
          (rmPc[p] = "wait" /\ rmPc'[p] # "wait") =>
            \A q \in Children(p) : fs[q] = "absent"
     /\ rmErr' = "none"
     /\ rmPc'[Root] = "done" => \A p \in Paths : fs'[p] = "absent"]_vars

\* a tree with an entry two levels down has been removed by one call
C14_Witness ==
  /\ rmCall = 1
  /\ rmPc[Root] = "done"
  /\ \E p \in Paths : Len(p) = 2 /\ rmPc[p] = "done"
  /\ \E p \in Paths : Len(p) = 1 /\ fsBefore[p] = "file"

C16_CheckGrain ==
  cgDone =>
    /\ cgFails = {} <=>
         /\ cgObj.hasCount /\ cgObj.payloadCount = 1
         /\ cgObj.hasSize /\ cgObj.payloadSize > 0
         /\ cgGrain.ptpSync # Undefined
         /\ cgGrain.ptpOrigin # Undefined
         /\ cgGrain.flow_id # Undefined
         /\ cgGrain.source_id # Undefined
         /\ cgGrain.duration # Undefined
    /\ ~cgObj.hasCount => "has single payload" \in cgFails
    /\ ~cgObj.hasSize => "has payload contents" \in cgFails

\* a message with one payload and all fields has passed
C16_Witness ==
  /\ cgDone
  /\ cgFails = {}
  /\ cgObj.payloadCount = 1
  /\ cgObj.payloadSize = MaxPayload
====
